---- MODULE Spec2Model ----
(***************************************************************************)
(* A model of jsonMdBridge: the encoder jsonToMarkdown and the decoder     *)
(* markdownToJson of src/src/converters/jsonToMarkdown.ts.                 *)
(*                                                                         *)
(* Texts are TLA+ strings; a character is a string of length one.  A JSON  *)
(* value is a tagged record:                                               *)
(*   [t |-> "null"]  [t |-> "undefined"]  [t |-> "bool", b |-> BOOLEAN]    *)
(*   [t |-> "num", n |-> Int, e |-> Nat]    the number n / 10^e            *)
(*   [t |-> "str", s |-> STRING]  [t |-> "date", iso |-> STRING]           *)
(*   [t |-> "arr", items |-> Seq(value)]                                   *)
(*   [t |-> "obj", entries |-> Seq([k : STRING, v : value])]               *)
(* The entries of an object are kept in the order Object.entries lists     *)
(* them.                                                                   *)
(***************************************************************************)
EXTENDS Integers, Sequences, FiniteSets, TLC

VARIABLES
    pc,        \* "value" | "text" | "decoded": what the caller holds
    scenario,  \* what the caller passes: the family and its parameters
    value,     \* the value given to jsonToMarkdown
    encOpts,   \* JsonToMarkdownOptions after defaults
    decOpts,   \* MarkdownToJsonOptions after defaults
    markdown,  \* the text given to markdownToJson
    depthSeen, \* the largest depth convertValue was called with
    stack,     \* the room the call stack has for frames of parseContent
    result     \* MarkdownToJsonResult: [data, errors]

vars == <<pc, scenario, value, encOpts, decOpts, markdown, depthSeen, stack, result>>

----------------------------------------------------------------------------
(* Values *)

Null == [t |-> "null"]
Undefined == [t |-> "undefined"]
Bool(b) == [t |-> "bool", b |-> b]
Num(n) == [t |-> "num", n |-> n, e |-> 0]
Str(s) == [t |-> "str", s |-> s]
DateOf(iso) == [t |-> "date", iso |-> iso]
Arr(items) == [t |-> "arr", items |-> items]
Obj(entries) == [t |-> "obj", entries |-> entries]
Entry(k, v) == [k |-> k, v |-> v]
NoValue == [t |-> "none"]

----------------------------------------------------------------------------
(* Strings *)

Char(s, i) == SubSeq(s, i, i)

SetMin(S) == CHOOSE x \in S : \A y \in S : x <= y
SetMax(S) == CHOOSE x \in S : \A y \in S : x >= y

Digits == "0123456789"
IsDigit(c) == \E d \in 1..10 : Char(Digits, d) = c
DigitVal(c) == (CHOOSE d \in 1..10 : Char(Digits, d) = c) - 1

UpperLetters == "ABCDEFGHIJKLMNOPQRSTUVWXYZ"
LowerLetters == "abcdefghijklmnopqrstuvwxyz"
IsUpper(c) == \E i \in 1..26 : Char(UpperLetters, i) = c
IsLower(c) == \E i \in 1..26 : Char(LowerLetters, i) = c
\* \w of a regular expression
IsWordChar(c) == IsUpper(c) \/ IsLower(c) \/ IsDigit(c) \/ c = "_"
\* \s of a regular expression, and what trim() removes
IsSpace(c) == c \in {" ", "\t", "\n", "\r"}

toUpperCase(c) ==
    IF IsLower(c)
    THEN Char(UpperLetters, CHOOSE i \in 1..26 : Char(LowerLetters, i) = c)
    ELSE c
toLowerCase(c) ==
    IF IsUpper(c)
    THEN Char(LowerLetters, CHOOSE i \in 1..26 : Char(UpperLetters, i) = c)
    ELSE c

startsWith(s, p) == Len(s) >= Len(p) /\ SubSeq(s, 1, Len(p)) = p
endsWith(s, p) == Len(s) >= Len(p) /\ SubSeq(s, Len(s) - Len(p) + 1, Len(s)) = p
includes(s, p) == \E i \in 1..(Len(s) - Len(p) + 1) : SubSeq(s, i, i + Len(p) - 1) = p
\* s.slice(n): the text from the 0-based index n on
sliceFrom(s, n) == SubSeq(s, n + 1, Len(s))

trim(s) ==
    LET keep == {i \in 1..Len(s) : ~IsSpace(Char(s, i))}
    IN  IF keep = {} THEN "" ELSE SubSeq(s, SetMin(keep), SetMax(keep))

RECURSIVE repeat(_, _)
repeat(s, n) == IF n <= 0 THEN "" ELSE s \o repeat(s, n - 1)

RECURSIVE join(_, _)
join(parts, sep) ==
    IF Len(parts) = 0 THEN ""
    ELSE IF Len(parts) = 1 THEN parts[1]
    ELSE parts[1] \o sep \o join(Tail(parts), sep)

\* s.split(sep) for a one-character separator
RECURSIVE split(_, _)
split(s, sep) ==
    LET at == {i \in 1..Len(s) : Char(s, i) = sep}
    IN  IF at = {} THEN <<s>>
        ELSE LET i == SetMin(at)
             IN  <<SubSeq(s, 1, i - 1)>> \o split(SubSeq(s, i + 1, Len(s)), sep)

\* text.replace(/x/g, y) for a one-character x
RECURSIVE replaceAll(_, _, _)
replaceAll(s, x, y) ==
    IF Len(s) = 0 THEN ""
    ELSE (IF Char(s, 1) = x THEN y ELSE Char(s, 1)) \o replaceAll(sliceFrom(s, 1), x, y)

AllDigits(s) == Len(s) > 0 /\ \A i \in 1..Len(s) : IsDigit(Char(s, i))

\* the value of a run of decimal digits (parseInt's digits)
RECURSIVE DigitsValue(_)
DigitsValue(s) ==
    IF Len(s) = 0 THEN 0
    ELSE 10 * DigitsValue(SubSeq(s, 1, Len(s) - 1)) + DigitVal(Char(s, Len(s)))

RECURSIVE NatToString(_)
NatToString(n) ==
    IF n < 10 THEN Char(Digits, n + 1)
    ELSE NatToString(n \div 10) \o Char(Digits, (n % 10) + 1)

RECURSIVE Pow10(_)
Pow10(k) == IF k = 0 THEN 1 ELSE 10 * Pow10(k - 1)

\* a number with its trailing fraction zeros dropped: one record per number
RECURSIVE Normal(_, _)
Normal(n, e) ==
    IF e > 0 /\ n % 10 = 0 THEN Normal(n \div 10, e - 1)
    ELSE [t |-> "num", n |-> n, e |-> e]

\* String(x) of a number: the decimal text of n / 10^e
NumberToString(x) ==
    LET a == IF x.n < 0 THEN -x.n ELSE x.n
        whole == NatToString(a \div Pow10(x.e))
        frac == NatToString(a % Pow10(x.e))
    IN  (IF x.n < 0 THEN "-" ELSE "")
        \o whole
        \o (IF x.e = 0 THEN "" ELSE "." \o repeat("0", x.e - Len(frac)) \o frac)

----------------------------------------------------------------------------
(* The encoder *)

MaxDepthMarker == "_... (max depth reached)_"

\* the defaults of jsonToMarkdown's options
DefaultEncOpts ==
    [headingLevel |-> 1, indentSize |-> 2, useNumberedLists |-> FALSE,
     arraysAsTables |-> FALSE, maxDepth |-> 10]

escapeMarkdown(text) == replaceAll(text, "|", "\\|")

isPrimitive(v) == v.t \in {"null", "undefined", "str", "num", "bool"}

\* typeof x === 'object' && x !== null && !Array.isArray(x)
IsPlainObject(v) == v.t \in {"obj", "date"}

isObjectArray(arr) ==
    Len(arr) > 0 /\ \A i \in 1..Len(arr) : IsPlainObject(arr[i])

\* Object.keys(obj): a Date has no own enumerable keys
ObjectKeys(v) ==
    IF v.t = "obj" THEN [i \in 1..Len(v.entries) |-> v.entries[i].k] ELSE <<>>

HasKey(v, key) == v.t = "obj" /\ \E i \in 1..Len(v.entries) : v.entries[i].k = key

\* obj[key]
Get(v, key) ==
    IF HasKey(v, key)
    THEN v.entries[CHOOSE i \in 1..Len(v.entries) : v.entries[i].k = key].v
    ELSE Undefined

\* String(x) of a primitive
StringOf(v) ==
    CASE v.t = "null" -> "null"
      [] v.t = "undefined" -> "undefined"
      [] v.t = "str" -> v.s
      [] v.t = "num" -> NumberToString(v)
      [] v.t = "bool" -> IF v.b THEN "true" ELSE "false"

\* a Set's insertion order: the keys of the rows by first appearance
RECURSIVE AddKeys(_, _)
AddKeys(keys, more) ==
    IF Len(more) = 0 THEN keys
    ELSE AddKeys(IF \E i \in 1..Len(keys) : keys[i] = more[1]
                 THEN keys ELSE Append(keys, more[1]),
                 Tail(more))

\* the columns taken from the first row alone
AllKeysFirstRow(arr, keys) == AddKeys(keys, ObjectKeys(arr[1]))

RECURSIVE AllKeys(_, _)
AllKeys(arr, keys) ==
    IF Len(arr) = 0 THEN keys
    ELSE AllKeys(Tail(arr), AddKeys(keys, ObjectKeys(arr[1])))

tableCell(v) ==
    IF v.t \in {"null", "undefined"} THEN "_null_"
    ELSE IF IsPlainObject(v) THEN "_object_"
    ELSE IF v.t = "arr" THEN "_array[" \o NatToString(Len(v.items)) \o "]_"
    ELSE escapeMarkdown(StringOf(v))

arrayToTable(arr, depth, indentSize, maxDepth) ==
    IF Len(arr) = 0 THEN ""
    ELSE
    LET keys == AllKeys(arr, <<>>)
    IN  IF Len(keys) = 0 THEN ""
        ELSE
        LET indent == repeat(" ", depth * indentSize)
            headerRow ==
                "| " \o join([k \in 1..Len(keys) |-> escapeMarkdown(keys[k])], " | ") \o " |"
            separatorRow ==
                "| " \o join([k \in 1..Len(keys) |-> "---"], " | ") \o " |"
            rows ==
                [r \in 1..Len(arr) |->
                    "| " \o join([k \in 1..Len(keys) |-> tableCell(Get(arr[r], keys[k]))],
                                 " | ") \o " |"]
            all == <<headerRow, separatorRow>> \o rows
        IN  join([r \in 1..Len(all) |-> indent \o all[r]], "\n")

\* a guard that lets one more level through
DepthExceededLate(depth, maxDepth) == depth > maxDepth + 1

\* the depth guard of convertValue
DepthExceeded(depth, maxDepth) == depth > maxDepth

RECURSIVE convertValue(_, _, _)
convertValue(v, depth, o) ==
    IF DepthExceeded(depth, o.maxDepth) THEN MaxDepthMarker
    ELSE
    LET indent == repeat(" ", depth * o.indentSize)
    IN  CASE v.t \in {"null", "undefined"} -> StringOf(v)
          [] v.t = "str" -> escapeMarkdown(v.s)
          [] v.t \in {"num", "bool"} -> StringOf(v)
          [] v.t = "arr" ->
                IF o.arraysAsTables /\ Len(v.items) > 0 /\ isObjectArray(v.items)
                THEN arrayToTable(v.items, depth, o.indentSize, o.maxDepth)
                ELSE IF Len(v.items) = 0 THEN indent \o "- _empty array_"
                ELSE join([i \in 1..Len(v.items) |->
                            indent
                            \o (IF o.useNumberedLists THEN NatToString(i) \o "." ELSE "-")
                            \o " " \o convertValue(v.items[i], depth + 1, o)],
                          "\n")
          [] v.t = "date" -> v.iso
          [] v.t = "obj" ->
                IF Len(v.entries) = 0 THEN indent \o "_empty object_"
                ELSE join([i \in 1..Len(v.entries) |->
                            LET keyStr == "**" \o escapeMarkdown(v.entries[i].k) \o "**:"
                                val == v.entries[i].v
                                valStr == convertValue(val, depth + 1, o)
                            IN  IF isPrimitive(val)
                                THEN indent \o "- " \o keyStr \o " " \o valStr
                                ELSE indent \o "- " \o keyStr \o "\n" \o valStr],
                          "\n")

\* the largest depth argument among the calls of convertValue(v, depth, ...)
RECURSIVE convertDepth(_, _, _)
convertDepth(v, depth, o) ==
    IF DepthExceeded(depth, o.maxDepth) THEN depth
    ELSE IF v.t = "arr" /\ ~(o.arraysAsTables /\ isObjectArray(v.items)) /\ Len(v.items) > 0
    THEN SetMax({convertDepth(v.items[i], depth + 1, o) : i \in 1..Len(v.items)})
    ELSE IF v.t = "obj" /\ Len(v.entries) > 0
    THEN SetMax({convertDepth(v.entries[i].v, depth + 1, o) : i \in 1..Len(v.entries)})
    ELSE depth

jsonToMarkdown(data, options) == convertValue(data, 0, options)

----------------------------------------------------------------------------
(* The decoder *)

\* the defaults of markdownToJson's options
DefaultDecOpts ==
    [parseNumberedLists |-> TRUE, parseTables |-> TRUE, camelCaseKeys |-> FALSE]

\* lines[i] of the source, whose indexes start at 0
Line(lines, i) == lines[i + 1]

\* a property key that is an array index: such keys come first, in ascending order
IsArrayIndex(k) == AllDigits(k) /\ (Len(k) = 1 \/ Char(k, 1) # "0")

\* where Object.entries lists a new key k of an object with these entries
InsertAt(entries, k) ==
    IF IsArrayIndex(k)
    THEN 1 + Cardinality({i \in 1..Len(entries) :
                            /\ IsArrayIndex(entries[i].k)
                            /\ DigitsValue(entries[i].k) < DigitsValue(k)})
    ELSE Len(entries) + 1

\* obj[k] = v
ObjSet(entries, k, v) ==
    IF \E i \in 1..Len(entries) : entries[i].k = k
    THEN [i \in 1..Len(entries) |-> IF entries[i].k = k THEN Entry(k, v) ELSE entries[i]]
    ELSE LET at == InsertAt(entries, k)
         IN  SubSeq(entries, 1, at - 1) \o <<Entry(k, v)>> \o SubSeq(entries, at, Len(entries))

\* an assignment that keeps the target's value of a key both have
ObjAssignKeepsTarget(target, source) ==
    target \o SelectSeq(source, LAMBDA e : \A i \in 1..Len(target) : target[i].k # e.k)

\* Object.assign(target, source) on the entries
RECURSIVE ObjAssign(_, _)
ObjAssign(target, source) ==
    IF Len(source) = 0 THEN target
    ELSE ObjAssign(ObjSet(target, source[1].k, source[1].v), Tail(source))

\* str.replace(/(?:^\w|[A-Z]|\b\w)/g, ...): a match is one character, an upper-case
\* letter or a word character that starts the text or follows a non-word character
CamelMatch(str, i) ==
    \/ IsUpper(Char(str, i))
    \/ IsWordChar(Char(str, i)) /\ (i = 1 \/ ~IsWordChar(Char(str, i - 1)))

RECURSIVE RemoveChars(_, _)
RemoveChars(s, drop) ==
    IF Len(s) = 0 THEN ""
    ELSE (IF Char(s, 1) \in drop THEN "" ELSE Char(s, 1)) \o RemoveChars(sliceFrom(s, 1), drop)

toCamelCase(str) ==
    LET cased == join([i \in 1..Len(str) |->
                        IF CamelMatch(str, i)
                        THEN (IF i = 1 THEN toLowerCase(Char(str, i))
                                       ELSE toUpperCase(Char(str, i)))
                        ELSE Char(str, i)], "")
    IN  RemoveChars(RemoveChars(cased, {" ", "\t", "\n", "\r"}), {"_", "-"})

\* the pattern with a single digit, /^-?\d$/
IsIntegerTextOneDigit(s) ==
    IF startsWith(s, "-") THEN Len(s) = 2 /\ IsDigit(Char(s, 2))
    ELSE Len(s) = 1 /\ IsDigit(s)

\* /^-?\d+$/
IsIntegerText(s) ==
    IF startsWith(s, "-") THEN AllDigits(sliceFrom(s, 1)) ELSE AllDigits(s)

\* /^-?\d*\.\d+$/
IsDecimalText(s) ==
    LET body == IF startsWith(s, "-") THEN sliceFrom(s, 1) ELSE s
        dots == {i \in 1..Len(body) : Char(body, i) = "."}
    IN  /\ Cardinality(dots) = 1
        /\ LET d == SetMin(dots)
           IN  /\ \A i \in 1..(d - 1) : IsDigit(Char(body, i))
               /\ AllDigits(SubSeq(body, d + 1, Len(body)))

\* a parse that drops the sign
parseIntNoSign(s) ==
    IF startsWith(s, "-") THEN Num(DigitsValue(sliceFrom(s, 1))) ELSE Num(DigitsValue(s))

parseInt(s) ==
    IF startsWith(s, "-") THEN Num(-DigitsValue(sliceFrom(s, 1))) ELSE Num(DigitsValue(s))

parseFloat(s) ==
    LET neg == startsWith(s, "-")
        body == IF neg THEN sliceFrom(s, 1) ELSE s
        d == SetMin({i \in 1..Len(body) : Char(body, i) = "."})
        fracLen == Len(body) - d
        mag == DigitsValue(SubSeq(body, 1, d - 1)) * Pow10(fracLen)
               + DigitsValue(SubSeq(body, d + 1, Len(body)))
    IN  Normal(IF neg THEN -mag ELSE mag, fracLen)

\* /^array\[\d+\]$/
IsArrayMarker(inner) ==
    /\ startsWith(inner, "array[")
    /\ endsWith(inner, "]")
    /\ AllDigits(SubSeq(inner, 7, Len(inner) - 1))

\* trimmed.replace(/^_|_$/g, '')
StripEmphasis(s) ==
    LET a == IF startsWith(s, "_") THEN sliceFrom(s, 1) ELSE s
    IN  IF endsWith(a, "_") THEN SubSeq(a, 1, Len(a) - 1) ELSE a

parseCellValue(cell) ==
    LET trimmed == trim(cell)
        inner == SubSeq(trimmed, 2, Len(trimmed) - 1)
    IN  IF trimmed \in {"_null_", "null", ""} THEN Null
        ELSE IF trimmed = "true" THEN Bool(TRUE)
        ELSE IF trimmed = "false" THEN Bool(FALSE)
        ELSE IF IsIntegerText(trimmed) THEN parseInt(trimmed)
        ELSE IF IsDecimalText(trimmed) THEN parseFloat(trimmed)
        ELSE IF startsWith(trimmed, "_") /\ endsWith(trimmed, "_")
                /\ (inner \in {"object", "empty object"})
        THEN Obj(<<>>)
        ELSE IF startsWith(trimmed, "_") /\ endsWith(trimmed, "_")
                /\ (inner = "empty array" \/ IsArrayMarker(inner))
        THEN Arr(<<>>)
        ELSE Str(StripEmphasis(trimmed))

IsPipeLine(line) == startsWith(line, "|") /\ endsWith(line, "|")

\* a test that wants every segment of the row to be a run of dashes
SeparatorTestEverySegment(row) ==
    /\ startsWith(row, "|") /\ endsWith(row, "|") /\ includes(row, "-")
    /\ \A i \in 1..Len(row) : Char(row, i) \in {"|", "-", " "}

\* /^\|\s*-+\s*\|/.test(row)
SeparatorTest(row) ==
    /\ startsWith(row, "|")
    /\ \E i \in 2..Len(row) : \E j \in i..Len(row) : \E k \in (j + 1)..Len(row) :
        /\ \A x \in 2..(i - 1) : IsSpace(Char(row, x))
        /\ \A x \in i..j : Char(row, x) = "-"
        /\ \A x \in (j + 1)..(k - 1) : IsSpace(Char(row, x))
        /\ Char(row, k) = "|"

isTable(lines) ==
    IF Len(lines) < 2 THEN FALSE
    ELSE
    LET found == {i \in 0..(Len(lines) - 1) : IsPipeLine(Line(lines, i))}
    IN  IF found = {} THEN FALSE
        ELSE
        LET headerRow == Line(lines, SetMin(found))
            headerIndex == SetMin({i \in 0..(Len(lines) - 1) : Line(lines, i) = headerRow})
        IN  IF headerIndex >= Len(lines) - 1 THEN FALSE
            ELSE LET separatorRow == Line(lines, headerIndex + 1)
                 IN  IF separatorRow = "" THEN FALSE ELSE SeparatorTest(separatorRow)

\* the cells taken from the split's index 0 on: the empty first segment is a cell
RowCellsFromZero(row, nHeaders) ==
    LET segs == split(row, "|")
        last == IF Len(segs) < nHeaders THEN Len(segs) ELSE nHeaders
    IN  [c \in 1..last |-> trim(segs[c])]

\* the cells of a row: the segments at the split's indexes 1..headers.length
RowCells(row, nHeaders) ==
    LET segs == split(row, "|")
        last == IF Len(segs) - 1 < nHeaders THEN Len(segs) - 1 ELSE nHeaders
    IN  [c \in 1..last |-> trim(segs[c + 1])]

RECURSIVE RowObject(_, _, _, _)
RowObject(headers, cells, idx, entries) ==
    IF idx > Len(headers) THEN entries
    ELSE RowObject(headers, cells, idx + 1,
                   ObjSet(entries, headers[idx], parseCellValue(cells[idx])))

SelectNonEmpty(parts) == SelectSeq(parts, LAMBDA h : Len(h) > 0)

\* the loop over the rows i = startIndex + 2 .. endIndex - 1
RECURSIVE ParseRows(_, _, _, _, _, _)
ParseRows(lines, headers, startIndex, endIndex, i, acc) ==
    IF i >= endIndex THEN acc
    ELSE
    LET row == Line(lines, i)
        cells == RowCells(row, Len(headers))
    IN  IF ~IsPipeLine(row)
        THEN ParseRows(lines, headers, startIndex, endIndex, i + 1, acc)
        ELSE IF Len(cells) # Len(headers)
        THEN ParseRows(lines, headers, startIndex, endIndex, i + 1,
                [acc EXCEPT !.errors = Append(@,
                    "Row " \o NatToString(i - startIndex - 1) \o ": column count mismatch")])
        ELSE ParseRows(lines, headers, startIndex, endIndex, i + 1,
                [acc EXCEPT !.result = Append(@, Obj(RowObject(headers, cells, 1, <<>>)))])

\* returns the rows and the errors list after the pushes
parseTable(lines, errors, camelCaseKeys) ==
    LET found == {i \in 0..(Len(lines) - 1) : IsPipeLine(Line(lines, i))}
    IN  IF found = {}
        THEN [result |-> <<>>, errors |-> Append(errors, "Table header not found")]
        ELSE
        LET startIndex == SetMin(found)
            after == {i \in (startIndex + 1)..(Len(lines) - 1) : ~IsPipeLine(Line(lines, i))}
            endIndex == IF after = {} THEN Len(lines) ELSE SetMin(after)
            split1 == split(Line(lines, startIndex), "|")
            names == SelectNonEmpty([h \in 1..Len(split1) |-> trim(split1[h])])
            headers == [h \in 1..Len(names) |->
                            IF camelCaseKeys THEN toCamelCase(names[h]) ELSE names[h]]
        IN  ParseRows(lines, headers, startIndex, endIndex, startIndex + 2,
                      [result |-> <<>>, errors |-> errors])

\* content.match(/\*\*(.+?)\*\*:\s*(.+)/): the leftmost "**", the shortest key after it
\* that "**:" and at least one more character follow
KeyValueEnds(content, i) ==
    {j \in (i + 3)..(Len(content) - 3) : SubSeq(content, j, j + 2) = "**:"}

KeyValueStarts(content) ==
    {i \in 1..(Len(content) - 1) :
        SubSeq(content, i, i + 1) = "**" /\ KeyValueEnds(content, i) # {}}

keyValueMatch(content) ==
    IF KeyValueStarts(content) = {} THEN [ok |-> FALSE, key |-> "", value |-> ""]
    ELSE LET i == SetMin(KeyValueStarts(content))
             j == SetMin(KeyValueEnds(content, i))
         IN  [ok |-> TRUE,
              key |-> SubSeq(content, i + 2, j - 1),
              value |-> trim(SubSeq(content, j + 3, Len(content)))]

\* /^\d+\.\s/.test(line)
IsNumberedLine(line) ==
    \E d \in 1..Len(line) :
        /\ AllDigits(SubSeq(line, 1, d))
        /\ Len(line) >= d + 2
        /\ Char(line, d + 1) = "."
        /\ IsSpace(Char(line, d + 2))

\* line.replace(/^\d+\.\s+/, '')
StripNumber(line) ==
    LET d == SetMax({x \in 1..Len(line) : AllDigits(SubSeq(line, 1, x))})
        rest == {x \in (d + 2)..Len(line) : ~IsSpace(Char(line, x))}
    IN  IF rest = {} THEN "" ELSE SubSeq(line, SetMin(rest), Len(line))

\* the while loops that collect the following list items
RECURSIVE CollectBullets(_, _, _)
CollectBullets(lines, nextIndex, items) ==
    IF nextIndex < Len(lines) /\ startsWith(Line(lines, nextIndex), "- ")
    THEN CollectBullets(lines, nextIndex + 1,
            Append(items, parseCellValue(trim(sliceFrom(Line(lines, nextIndex), 2)))))
    ELSE [items |-> items, nextIndex |-> nextIndex]

RECURSIVE CollectNumbered(_, _, _)
CollectNumbered(lines, nextIndex, items) ==
    IF nextIndex < Len(lines) /\ IsNumberedLine(Line(lines, nextIndex))
    THEN CollectNumbered(lines, nextIndex + 1,
            Append(items, parseCellValue(trim(StripNumber(Line(lines, nextIndex))))))
    ELSE [items |-> items, nextIndex |-> nextIndex]

\* a skip that does not move on
UnrecognizedStays(startIndex) == [value |-> Null, nextIndex |-> startIndex]

\* an empty or unrecognized line: null, and the next line
Unrecognized(startIndex) == [value |-> Null, nextIndex |-> startIndex + 1]

\* parseContent never pushes onto errors, so the list is not threaded through it
RECURSIVE parseContent(_, _, _, _)
parseContent(lines, startIndex, parseNumberedLists, camelCaseKeys) ==
    IF startIndex >= Len(lines) THEN [value |-> Null, nextIndex |-> startIndex]
    ELSE
    LET line == Line(lines, startIndex)
        content == trim(sliceFrom(line, 2))
        kv == keyValueMatch(content)
    IN  IF startsWith(line, "- ") /\ includes(content, "**") /\ includes(content, ":") /\ kv.ok
        THEN
            LET key == IF camelCaseKeys THEN toCamelCase(kv.key) ELSE kv.key
                scalar == parseCellValue(kv.value)
                hasNested == /\ startIndex + 1 < Len(lines)
                             /\ startsWith(Line(lines, startIndex + 1), "  ")
                nested == parseContent(lines, startIndex + 1, parseNumberedLists, camelCaseKeys)
                useNested == hasNested /\ nested.value # Null
                val == IF useNested THEN nested.value ELSE scalar
                nextIndex == IF useNested THEN nested.nextIndex ELSE startIndex + 1
                hasMore == /\ nextIndex < Len(lines)
                           /\ startsWith(Line(lines, nextIndex), "- ")
                more == parseContent(lines, nextIndex, parseNumberedLists, camelCaseKeys)
                merge == hasMore /\ more.value.t = "obj"
            IN  IF merge
                THEN [value |-> Obj(ObjAssign(<<Entry(key, val)>>, more.value.entries)),
                      nextIndex |-> more.nextIndex]
                ELSE [value |-> Obj(<<Entry(key, val)>>), nextIndex |-> nextIndex]
        ELSE IF startsWith(line, "- ")
        THEN
            LET got == CollectBullets(lines, startIndex + 1, <<parseCellValue(content)>>)
            IN  [value |-> IF Len(got.items) = 1 THEN got.items[1] ELSE Arr(got.items),
                 nextIndex |-> got.nextIndex]
        ELSE IF parseNumberedLists /\ IsNumberedLine(line)
        THEN
            LET got == CollectNumbered(lines, startIndex + 1,
                            <<parseCellValue(trim(StripNumber(line)))>>)
            IN  [value |-> Arr(got.items), nextIndex |-> got.nextIndex]
        ELSE Unrecognized(startIndex)

\* the deepest chain of parseContent calls under the call at startIndex, that call
\* counted: a key-value bullet calls parseContent again for the bullet that follows
RECURSIVE parseContentFrames(_, _, _, _)
parseContentFrames(lines, startIndex, parseNumberedLists, camelCaseKeys) ==
    IF startIndex >= Len(lines) THEN 1
    ELSE
    LET line == Line(lines, startIndex)
        content == trim(sliceFrom(line, 2))
    IN  IF startsWith(line, "- ") /\ includes(content, "**") /\ includes(content, ":")
           /\ keyValueMatch(content).ok
        THEN
            LET hasNested == /\ startIndex + 1 < Len(lines)
                             /\ startsWith(Line(lines, startIndex + 1), "  ")
                nested == parseContent(lines, startIndex + 1, parseNumberedLists, camelCaseKeys)
                nextIndex == IF hasNested /\ nested.value # Null
                             THEN nested.nextIndex ELSE startIndex + 1
                hasMore == /\ nextIndex < Len(lines)
                           /\ startsWith(Line(lines, nextIndex), "- ")
            IN  1 + SetMax({0}
                    \cup (IF hasNested
                          THEN {parseContentFrames(lines, startIndex + 1,
                                                   parseNumberedLists, camelCaseKeys)}
                          ELSE {})
                    \cup (IF hasMore
                          THEN {parseContentFrames(lines, nextIndex,
                                                   parseNumberedLists, camelCaseKeys)}
                          ELSE {}))
        ELSE 1

\* a call stack with room for any text, and one with room for n frames of parseContent
AmpleStack == [limited |-> FALSE, frames |-> 0]
StackOf(n) == [limited |-> TRUE, frames |-> n]

\* the engine throws a RangeError when a call finds no room on the stack
StackExceeded(frames, room) == room.limited /\ frames > room.frames
StackOverflowMessage == "Maximum call stack size exceeded"

\* a catch that pushes the message without the prefix
CaughtWithoutPrefix(errors, message) ==
    [data |-> Null, errors |-> Append(errors, message)]

\* the catch block of markdownToJson
Caught(errors, message) ==
    [data |-> Null, errors |-> Append(errors, "Fatal error: " \o message)]

TrimmedLines(text) ==
    LET parts == split(text, "\n") IN [i \in 1..Len(parts) |-> trim(parts[i])]

\* the one step of the try block that can throw on a text is a call that finds the
\* stack full: parseContent calls itself once for every key-value bullet of a run
markdownToJson(text, options, room) ==
    LET lines == TrimmedLines(text)
    IN  IF options.parseTables /\ isTable(lines)
        THEN LET t == parseTable(lines, <<>>, options.camelCaseKeys)
             IN  [data |-> Arr(t.result), errors |-> t.errors]
        ELSE IF StackExceeded(parseContentFrames(lines, 0, options.parseNumberedLists,
                                                 options.camelCaseKeys), room)
        THEN Caught(<<>>, StackOverflowMessage)
        ELSE [data |-> parseContent(lines, 0, options.parseNumberedLists,
                                    options.camelCaseKeys).value,
              errors |-> <<>>]

----------------------------------------------------------------------------
(* The callers: what is passed to jsonToMarkdown and markdownToJson *)

MaxEntries == 2     \* keys of a flat mapping
MaxItems == 2       \* elements of a list of scalars
MaxRows == 2        \* mappings of a sequence rendered as a table
MaxNest == 4        \* nesting depth of a nested value
MaxDepthOption == 2 \* largest maxDepth option tried on nested values
MaxCols == 3        \* header cells of a written table
MaxTextRows == 2    \* data rows of a written table
MaxWords == 2       \* words of a written key
MaxLines == 2       \* bullets of a written key-value list
MaxRun == 3         \* bullets of a long run of key-value bullets
MaxStack == 2       \* frames of parseContent a short call stack has room for
MaxDocLines == 3    \* lines of a written text of pipe lines and prose

Decimal(n, e) == [t |-> "num", n |-> n, e |-> e]

ScalarValues ==
    {Null, Undefined, Bool(TRUE), Bool(FALSE), Num(0), Num(30), Num(-7),
     Decimal(1999, 2), Str("John"), Str("10001"), Str("")}

FlatKeys == {"name", "age", "zip"}

Distinct(seq) == \A i, j \in 1..Len(seq) : i # j => seq[i] # seq[j]

\* the sequences of at most n elements of S, and those of at least one element
SeqsUpTo(S, n) == UNION {[1..k -> S] : k \in 0..n}
NonEmptySeqs(S, n) == UNION {[1..k -> S] : k \in 1..n}

\* the mappings of at most n of the entries E, no key twice, in every key order
Mappings(E, n) ==
    {Obj(e) : e \in {f \in SeqsUpTo(E, n) : Distinct([i \in 1..Len(f) |-> f[i].k])}}

FlatMappings == Mappings({Entry(k, v) : k \in FlatKeys, v \in ScalarValues}, MaxEntries)

ScalarLists == {Arr(items) : items \in SeqsUpTo(ScalarValues, MaxItems)}

TableEntries ==
    {Entry("name", v) : v \in {Str("John"), Str("true"), Null}}
    \cup {Entry("age", v) : v \in {Num(30), Str("10001"), Undefined}}
TableRows == Mappings(TableEntries, MaxEntries)
TableArrays == {Arr(rows) : rows \in NonEmptySeqs(TableRows, MaxRows)}

\* the values that sit at depth d of a nested value; every scalar names its depth
RECURSIVE NestedAt(_)
NestedAt(d) ==
    {Str("v" \o NatToString(d))}
    \cup (IF d >= MaxNest THEN {}
          ELSE {Arr(<<c>>) : c \in NestedAt(d + 1)}
               \cup {Obj(<<Entry("k" \o NatToString(d), c)>>) : c \in NestedAt(d + 1)})

\* string values that hold a pipe between two words
PipeWords == {"Hello", "world"}
PipeSeparators == {" | ", "|"}

\* a mapping with such a string, written as bullets or, as the only row of a
\* sequence, as a table
PipeScenarios ==
    {[kind |-> "pipes", left |-> l, right |-> r, sep |-> p,
      value |-> (IF a THEN Arr(<<Obj(<<Entry("message", Str(l \o p \o r))>> \o more)>>)
                      ELSE Obj(<<Entry("message", Str(l \o p \o r))>> \o more)),
      enc |-> [DefaultEncOpts EXCEPT !.arraysAsTables = a],
      dec |-> DefaultDecOpts] :
        l \in PipeWords, r \in PipeWords, p \in PipeSeparators, a \in BOOLEAN,
        more \in {<<>>, <<Entry("path", Str("/usr/local/bin"))>>}}

JsonScenarios ==
    PipeScenarios \cup
    {[kind |-> "flat", value |-> v, enc |-> DefaultEncOpts, dec |-> DefaultDecOpts] :
        v \in FlatMappings}
    \cup {[kind |-> "list", value |-> v,
           enc |-> [DefaultEncOpts EXCEPT !.useNumberedLists = n],
           dec |-> DefaultDecOpts] : v \in ScalarLists, n \in BOOLEAN}
    \cup {[kind |-> "table", value |-> v,
           enc |-> [DefaultEncOpts EXCEPT !.arraysAsTables = a],
           dec |-> DefaultDecOpts] : v \in TableArrays, a \in BOOLEAN}
    \cup {[kind |-> "nested", value |-> v,
           enc |-> [DefaultEncOpts EXCEPT !.arraysAsTables = a, !.maxDepth = m],
           dec |-> DefaultDecOpts] :
            v \in NestedAt(0), a \in BOOLEAN,
            m \in (0..MaxDepthOption) \cup {DefaultEncOpts.maxDepth}}

(* Texts written by hand *)

\* a pipe row of the given cell texts
RowText(cells) == "| " \o join(cells, " | ") \o " |"
HeaderName(c) == "col" \o NatToString(c)
CellText(r, c) == "v" \o NatToString(r) \o NatToString(c)

\* a table of n header cells whose data row r has counts[r] cells
TableText(n, counts) ==
    join(<<RowText([c \in 1..n |-> HeaderName(c)]),
           RowText([c \in 1..n |-> "---"])>>
         \o [r \in 1..Len(counts) |-> RowText([c \in 1..counts[r] |-> CellText(r, c)])],
         "\n")

TableTextScenarios ==
    {[kind |-> "mdtable", cols |-> n, counts |-> counts, text |-> TableText(n, counts),
      dec |-> DefaultDecOpts] :
        n \in 1..MaxCols, counts \in NonEmptySeqs(1..(MaxCols + 1), MaxTextRows)}

KeyWords == {"first", "Last", "name"}
KeySeparators == {"_", "-", " "}

\* one bullet "- **key**: John" whose key is the words joined by the separator
CamelScenarios ==
    {[kind |-> "camel", words |-> w, sep |-> sep,
      text |-> "- **" \o join(w, sep) \o "**: John",
      dec |-> [DefaultDecOpts EXCEPT !.camelCaseKeys = c]] :
        w \in NonEmptySeqs(KeyWords, MaxWords), sep \in KeySeparators, c \in BOOLEAN}

\* the bullet line of a key and the text of its value
BulletText(k, text) == "- **" \o k \o "**: " \o text

ValueTexts == {"John", "30", "-7", "10001", "true", "19.99"}

\* a run of key-value bullets "- **k**: text"
BulletScenarios ==
    {[kind |-> "bullets", lines |-> l,
      text |-> join([i \in 1..Len(l) |-> BulletText(l[i].k, l[i].text)], "\n"),
      dec |-> DefaultDecOpts] :
        l \in {f \in NonEmptySeqs([k : {"name", "age"}, text : ValueTexts], MaxLines) :
                    Distinct([i \in 1..Len(f) |-> f[i].k])}}

ChildEntries == {Entry("name", Str("John")), Entry("age", Num(30))}

\* a key bullet "- **parent**:" followed by the bullets of a mapping, indented by
\* `indent` spaces, with or without a sibling bullet before and after
NestedText(parent, children, indent, before, after) ==
    join((IF before THEN <<BulletText("title", "Doc")>> ELSE <<>>)
         \o <<"- **" \o parent \o "**:">>
         \o [i \in 1..Len(children.entries) |->
                repeat(" ", indent)
                \o BulletText(children.entries[i].k, StringOf(children.entries[i].v))]
         \o (IF after THEN <<BulletText("tags", "json")>> ELSE <<>>),
         "\n")

NestedTextScenarios ==
    {[kind |-> "nesteddoc", parent |-> p, children |-> ch, indent |-> ind,
      before |-> b, after |-> a, text |-> NestedText(p, ch, ind, b, a),
      dec |-> DefaultDecOpts] :
        p \in {"user", "author"},
        ch \in Mappings(ChildEntries, MaxEntries) \ {Obj(<<>>)},
        ind \in {2, 4}, b \in BOOLEAN, a \in BOOLEAN}

\* a run of n key-value bullets "- **k1**: v1" ..., decoded on a short call stack
DeepRunScenarios ==
    {[kind |-> "deeprun", n |-> n, frames |-> f,
      text |-> join([i \in 1..n |-> BulletText("k" \o NatToString(i), "v" \o NatToString(i))],
                    "\n"),
      dec |-> DefaultDecOpts] : n \in 1..MaxRun, f \in 1..MaxStack}

\* the lines a written text is made of: a pipe line, a separator line, a line whose
\* first segment alone is a run of dashes, and a line of prose
LineKinds == {"pipe", "sep", "sepjunk", "prose"}

LineOfKind(k) ==
    CASE k = "pipe" -> "| a |"
      [] k = "sep" -> "| --- |"
      [] k = "sepjunk" -> "| --- | x |"
      [] k = "prose" -> "text"

LinesScenarios ==
    {[kind |-> "mdlines", kinds |-> ks,
      text |-> join([i \in 1..Len(ks) |-> LineOfKind(ks[i])], "\n"),
      dec |-> [DefaultDecOpts EXCEPT !.parseTables = p]] :
        ks \in NonEmptySeqs(LineKinds, MaxDocLines), p \in BOOLEAN}

\* a run of key-value bullets, a key twice or not, some keys array indexes, at the
\* end of the text or with one more line after it
RunKeys == {"name", "2", "1"}
RunTexts == {"John", "30"}
RunEndings == {"", "text", "- plain", "- _object_"}

RunScenarios ==
    {[kind |-> "run", lines |-> l, after |-> a,
      text |-> join([i \in 1..Len(l) |-> BulletText(l[i].k, l[i].text)]
                    \o (IF a = "" THEN <<>> ELSE <<a>>), "\n"),
      dec |-> DefaultDecOpts] :
        l \in NonEmptySeqs([k : RunKeys, text : RunTexts], MaxRun), a \in RunEndings}

TextScenarios ==
    RunScenarios \cup LinesScenarios \cup TableTextScenarios \cup CamelScenarios \cup BulletScenarios \cup NestedTextScenarios
    \cup DeepRunScenarios

IsText(sc) == sc.kind \in {"mdtable", "camel", "bullets", "nesteddoc", "deeprun", "mdlines", "run"}

----------------------------------------------------------------------------
(* The state machine: a caller encodes a value and decodes the text, or decodes a
   text written by hand *)

Init ==
    /\ scenario \in JsonScenarios \cup TextScenarios
    /\ pc = (IF IsText(scenario) THEN "text" ELSE "value")
    /\ value = (IF IsText(scenario) THEN NoValue ELSE scenario.value)
    /\ encOpts = (IF IsText(scenario) THEN DefaultEncOpts ELSE scenario.enc)
    /\ decOpts = scenario.dec
    /\ markdown = (IF IsText(scenario) THEN scenario.text ELSE "")
    /\ depthSeen = -1
    /\ stack = (IF scenario.kind = "deeprun" THEN StackOf(scenario.frames) ELSE AmpleStack)
    /\ result = [data |-> NoValue, errors |-> <<>>]

Encode ==
    /\ pc = "value"
    /\ markdown' = jsonToMarkdown(value, encOpts)
    /\ depthSeen' = convertDepth(value, 0, encOpts)
    /\ pc' = "text"
    /\ UNCHANGED <<scenario, value, encOpts, decOpts, stack, result>>

Decode ==
    /\ pc = "text"
    /\ result' = markdownToJson(markdown, decOpts, stack)
    /\ pc' = "decoded"
    /\ UNCHANGED <<scenario, value, encOpts, decOpts, markdown, depthSeen, stack>>

Next == Encode \/ Decode

Spec == Init /\ [][Next]_vars

----------------------------------------------------------------------------
(* Properties *)

Decoded(kind) == pc = "decoded" /\ scenario.kind = kind

\* two mappings with the same keys and the same value at every key
SameMapping(a, b) ==
    /\ a.t = "obj" /\ b.t = "obj"
    /\ {a.entries[i].k : i \in 1..Len(a.entries)} = {b.entries[i].k : i \in 1..Len(b.entries)}
    /\ \A i \in 1..Len(a.entries) : Get(b, a.entries[i].k) = a.entries[i].v

InSeq(x, seq) == \E i \in 1..Len(seq) : seq[i] = x

\* the mapping a well-formed data row r of a written table stands for
WrittenRow(n, r) == Obj([c \in 1..n |-> Entry(HeaderName(c), Str(CellText(r, c)))])

RECURSIVE WellFormedRows(_, _, _)
WellFormedRows(n, counts, r) ==
    IF r > Len(counts) THEN <<>>
    ELSE (IF counts[r] = n THEN <<WrittenRow(n, r)>> ELSE <<>>)
         \o WellFormedRows(n, counts, r + 1)

\* C1: a data row whose number of cells differs from the number of header cells gets
\* a diagnostic in errors and is left out of the output, and the output holds every
\* well-formed row of the table (and nothing else), in order.
C1_MismatchedRowDropped ==
    Decoded("mdtable") =>
        /\ \A r \in 1..Len(scenario.counts) :
                scenario.counts[r] # scenario.cols =>
                    InSeq("Row " \o NatToString(r) \o ": column count mismatch", result.errors)
        /\ result.data = Arr(WellFormedRows(scenario.cols, scenario.counts, 1))

LowerWord(w) == join([i \in 1..Len(w) |-> toLowerCase(Char(w, i))], "")
Capitalized(w) == toUpperCase(Char(w, 1)) \o sliceFrom(w, 1)

\* the camelCase of a key made of these words
CamelOf(words) ==
    LowerWord(words[1]) \o join([i \in 1..(Len(words) - 1) |-> Capitalized(words[i + 1])], "")

\* C2: with camelCaseKeys enabled, the bullet of a key whose words are separated by an
\* underscore, a hyphen or a space decodes to a mapping whose key is the camelCase
\* of the words: the first word in lower case, every later word capitalized, no
\* separator.
C2_CamelCaseKeys ==
    (Decoded("camel") /\ decOpts.camelCaseKeys) =>
        result.data = Obj(<<Entry(CamelOf(scenario.words), Str("John"))>>)

IsInteger(v) == v.t = "num" /\ v.e = 0
IsNumberOrBoolean(v) == IsInteger(v) \/ v.t = "bool"

\* C3: a non-empty flat mapping of integers and booleans, encoded and decoded with
\* the default options, comes back as the same mapping (same keys, same order, same
\* typed values) with no errors.
C3_NumbersAndBooleansRoundTrip ==
    (/\ Decoded("flat")
     /\ Len(value.entries) > 0
     /\ \A i \in 1..Len(value.entries) : IsNumberOrBoolean(value.entries[i].v))
    => result = [data |-> value, errors |-> <<>>]

C3_Witness ==
    /\ Decoded("flat")
    /\ value = Obj(<<Entry("age", Num(-7)), Entry("name", Bool(FALSE))>>)
    /\ markdown = "- **age**: -7\n- **name**: false"
    /\ result.data = value

IsLetter(c) == IsUpper(c) \/ IsLower(c)
PlainWord(w) == Len(w) > 0 /\ \A i \in 1..Len(w) : IsLetter(Char(w, i))

KeySet(v) == {v.entries[i].k : i \in 1..Len(v.entries)}

\* the rows share one non-empty key set
UniformRows(rows) ==
    /\ \A r \in 1..Len(rows) : KeySet(rows[r]) = KeySet(rows[1])
    /\ KeySet(rows[1]) # {}

RowValues(rows) ==
    UNION {{rows[r].entries[i].v : i \in 1..Len(rows[r].entries)} : r \in 1..Len(rows)}

\* the decoded data is a sequence of the same mappings, in order, with no errors
TableComesBack ==
    /\ result.data.t = "arr"
    /\ Len(result.data.items) = Len(value.items)
    /\ \A r \in 1..Len(value.items) : SameMapping(value.items[r], result.data.items[r])
    /\ result.errors = <<>>

IntegerOrWord(v) == IsInteger(v) \/ (v.t = "str" /\ PlainWord(v.s))

\* a word that scalar inference reads as a boolean or as null
InferenceLiterals == {"true", "false", "null"}
IntegerOrOrdinaryWord(v) ==
    IsInteger(v) \/ (v.t = "str" /\ PlainWord(v.s) /\ v.s \notin InferenceLiterals)

\* C4 as stated: a non-empty sequence of mappings with one non-empty key set and
\* values that are integers or plain-word strings, encoded with arraysAsTables and
\* decoded with parseTables, comes back as the same mappings in the same order with
\* no errors.
C4_TableRoundTripAnyWord ==
    (Decoded("table") /\ encOpts.arraysAsTables /\ decOpts.parseTables
     /\ UniformRows(value.items)
     /\ \A v \in RowValues(value.items) : IntegerOrWord(v))
    => TableComesBack

\* C4, amended: the same, for string values that are plain words other than the
\* words true, false and null (and plain-word keys).
C4_TableRoundTrip ==
    (Decoded("table") /\ encOpts.arraysAsTables /\ decOpts.parseTables
     /\ UniformRows(value.items)
     /\ \A v \in RowValues(value.items) : IntegerOrOrdinaryWord(v)
     /\ \A k \in KeySet(value.items[1]) : PlainWord(k))
    => TableComesBack

C4_Witness ==
    /\ Decoded("table") /\ encOpts.arraysAsTables
    /\ value = Arr(<<Obj(<<Entry("name", Str("John")), Entry("age", Num(30))>>),
                     Obj(<<Entry("age", Num(30)), Entry("name", Str("John"))>>)>>)
    /\ markdown = "| name | age |\n| --- | --- |\n| John | 30 |\n| John | 30 |"
    /\ TableComesBack

\* the depth of the deepest value of v, which itself sits at depth d
RECURSIVE DeepestAt(_, _)
DeepestAt(v, d) ==
    IF v.t = "arr" /\ Len(v.items) > 0
    THEN SetMax({DeepestAt(v.items[i], d + 1) : i \in 1..Len(v.items)})
    ELSE IF v.t = "obj" /\ Len(v.entries) > 0
    THEN SetMax({DeepestAt(v.entries[i].v, d + 1) : i \in 1..Len(v.entries)})
    ELSE d

\* some sequence of v (at depth d) is within maxDepth and is rendered as a table
RECURSIVE RendersTable(_, _, _)
RendersTable(v, d, o) ==
    /\ d <= o.maxDepth
    /\ \/ v.t = "arr" /\ o.arraysAsTables /\ isObjectArray(v.items)
       \/ v.t = "arr" /\ \E i \in 1..Len(v.items) : RendersTable(v.items[i], d + 1, o)
       \/ v.t = "obj" /\ \E i \in 1..Len(v.entries) : RendersTable(v.entries[i].v, d + 1, o)

\* no scalar of a depth beyond maxDepth is in the text, and the marker is there when
\* the input goes deeper than maxDepth
TruncatedAtMaxDepth ==
    /\ \A d \in 0..MaxNest :
            d > encOpts.maxDepth => ~includes(markdown, "v" \o NatToString(d))
    /\ DeepestAt(value, 0) > encOpts.maxDepth => includes(markdown, MaxDepthMarker)

\* C5 as stated: for every input and every maxDepth the encoder renders no value
\* located deeper than maxDepth, any input nested deeper than maxDepth yields the
\* marker, and the depth counter never exceeds maxDepth + 1.
C5_DepthBoundAlways ==
    (pc # "value" /\ scenario.kind = "nested") =>
        /\ TruncatedAtMaxDepth
        /\ depthSeen <= encOpts.maxDepth + 1

\* C5, amended: the depth counter never exceeds maxDepth + 1; and when no sequence of
\* the input is rendered as a table, no value located deeper than maxDepth is
\* rendered and an input nested deeper than maxDepth yields the marker.
C5_DepthBound ==
    (pc # "value" /\ scenario.kind = "nested") =>
        /\ depthSeen <= encOpts.maxDepth + 1
        /\ ~RendersTable(value, 0, encOpts) => TruncatedAtMaxDepth

C5_Witness ==
    /\ pc = "text" /\ scenario.kind = "nested"
    /\ encOpts.maxDepth = 1
    /\ DeepestAt(value, 0) = 3
    /\ ~RendersTable(value, 0, encOpts)
    /\ includes(markdown, MaxDepthMarker)
    /\ depthSeen = 2

\* C6: a key bullet followed by lines indented by two spaces or more decodes to a
\* mapping that holds the key with the parse of the indented block as its value, and
\* the sibling keys before and after the block are in the same mapping.
C6_NestedBlock ==
    Decoded("nesteddoc") =>
        /\ result.data.t = "obj"
        /\ HasKey(result.data, scenario.parent)
        /\ Get(result.data, scenario.parent) = scenario.children
        /\ scenario.before => HasKey(result.data, "title")
        /\ scenario.after => HasKey(result.data, "tags")

\* C7: the text "- **name**: John" / "- **age**: 30" decodes with the default options
\* to data { name: 'John', age: '30' }, the digits kept as a string, and no errors.
C7_DigitsStayString ==
    (Decoded("bullets") /\ markdown = "- **name**: John\n- **age**: 30") =>
        result = [data |-> Obj(<<Entry("name", Str("John")), Entry("age", Str("30"))>>),
                  errors |-> <<>>]

\* the texts of the integer pattern among the written and the encoded values
IntegerTexts == {<<"0", 0>>, <<"30", 30>>, <<"-7", -7>>, <<"10001", 10001>>}
IsIntegerLike(v) ==
    IsInteger(v) \/ (v.t = "str" /\ \E p \in IntegerTexts : p[1] = v.s)
IntegerMeant(v) ==
    IF v.t = "num" THEN v ELSE Num((CHOOSE p \in IntegerTexts : p[1] = v.s)[2])

C9_EmptyContainersRoundTrip ==
    /\ (pc = "decoded" /\ value = Arr(<<>>)) =>
            /\ includes(markdown, "_empty array_")
            /\ result = [data |-> Arr(<<>>), errors |-> <<>>]
    /\ (pc = "decoded" /\ value = Obj(<<>>)) =>
            /\ includes(markdown, "_empty object_")
            /\ result = [data |-> Obj(<<>>), errors |-> <<>>]

IsAbsent(v) == v.t \in {"null", "undefined"}

\* C10: a mapping value or a table cell that is null or undefined comes back from
\* encoding and decoding as null under its key.
C10_AbsentValuesDecodeToNull ==
    /\ Decoded("flat") =>
            \A i \in 1..Len(value.entries) :
                IsAbsent(value.entries[i].v) =>
                    /\ HasKey(result.data, value.entries[i].k)
                    /\ Get(result.data, value.entries[i].k) = Null
    /\ (Decoded("table") /\ encOpts.arraysAsTables) =>
            \A r \in 1..Len(value.items) : \A i \in 1..Len(value.items[r].entries) :
                IsAbsent(value.items[r].entries[i].v) =>
                    /\ HasKey(result.data.items[r], value.items[r].entries[i].k)
                    /\ Get(result.data.items[r], value.items[r].entries[i].k) = Null

\* C11: a non-empty sequence of flat mappings, encoded with the default options and
\* decoded with the default options, comes back with a sequence as data and no
\* errors.
C11_SequenceOfMappingsComesBackAsSequence ==
    (/\ Decoded("table") /\ encOpts = DefaultEncOpts /\ decOpts = DefaultDecOpts
     /\ \A r \in 1..Len(value.items) : Len(value.items[r].entries) > 0)
    => /\ result.data.t = "arr"
       /\ result.errors = <<>>

(* the cells of a table line: the texts between its pipes, an escaped pipe "\|" being
   text and not a boundary *)
CellBoundaries(line) ==
    {i \in 1..Len(line) : Char(line, i) = "|" /\ (i = 1 \/ Char(line, i - 1) # "\\")}

TableCells(line) ==
    LET at == CellBoundaries(line)
        nth(c) == CHOOSE i \in at : Cardinality({j \in at : j < i}) = c - 1
    IN  [c \in 1..(Cardinality(at) - 1) |-> trim(SubSeq(line, nth(c) + 1, nth(c + 1) - 1))]

\* where a key is first seen: the first row that has it and its place in that row
FirstSeen(rows, k) ==
    LET r == SetMin({x \in 1..Len(rows) : HasKey(rows[x], k)})
        i == CHOOSE x \in 1..Len(rows[r].entries) : rows[r].entries[x].k = k
    IN  <<r, i>>

Precedes(a, b) == a[1] < b[1] \/ (a[1] = b[1] /\ a[2] < b[2])

\* cols lists the union of the keys of the rows, each once, by first appearance
ColumnsInOrder(rows, cols) ==
    /\ {cols[c] : c \in 1..Len(cols)} = UNION {KeySet(rows[r]) : r \in 1..Len(rows)}
    /\ \A a, b \in 1..Len(cols) :
            a < b => Precedes(FirstSeen(rows, cols[a]), FirstSeen(rows, cols[b]))

\* the text is a header line of the columns, one separator line with "---" for every
\* column, and one line for every row, in order, with one cell for every column:
\* "_null_" where the row lacks the key or holds null or undefined, the escaped text
\* of a scalar otherwise
IsTableOf(text, rows) ==
    LET lines == split(text, "\n")
    IN  /\ Len(lines) = Len(rows) + 2
        /\ ColumnsInOrder(rows, TableCells(lines[1]))
        /\ \A i \in 1..Len(lines) : startsWith(lines[i], "|") /\ endsWith(lines[i], "|")
        /\ LET cols == TableCells(lines[1])
           IN  /\ TableCells(lines[2]) = [c \in 1..Len(cols) |-> "---"]
               /\ \A r \in 1..Len(rows) :
                    LET cells == TableCells(lines[r + 2])
                    IN  /\ Len(cells) = Len(cols)
                        /\ \A c \in 1..Len(cols) :
                            LET v == Get(rows[r], cols[c])
                            IN  cells[c] = (IF IsAbsent(v) THEN "_null_"
                                            ELSE escapeMarkdown(StringOf(v)))

RenderedAsTable ==
    /\ pc # "value" /\ scenario.kind \in {"table", "pipes"}
    /\ value.t = "arr" /\ encOpts.arraysAsTables

\* C12 as stated: a non-empty sequence of mappings rendered as a table gives the
\* header of the union of the row keys by first appearance, one separator line with
\* one "---" for every column, one data row for every element in input order with one
\* cell for every column, and "_null_" where a row lacks the key or holds null.
C12_TableLayoutAlways ==
    RenderedAsTable => IsTableOf(markdown, value.items)

\* C12, amended: the same when some row has a key; when no row has any key the text is
\* empty.
C12_TableLayout ==
    RenderedAsTable =>
        IF UNION {KeySet(value.items[r]) : r \in 1..Len(value.items)} = {}
        THEN markdown = ""
        ELSE IsTableOf(markdown, value.items)

C12_Witness ==
    /\ pc = "text" /\ scenario.kind = "table" /\ encOpts.arraysAsTables
    /\ value = Arr(<<Obj(<<Entry("name", Str("John"))>>),
                     Obj(<<Entry("age", Num(30)), Entry("name", Null)>>)>>)
    /\ markdown = "| name | age |\n| --- | --- |\n| John | _null_ |\n| _null_ | 30 |"

\* the mapping that comes back for the one written: data itself, or the only row
DecodedMapping ==
    IF value.t = "obj" THEN result.data
    ELSE IF result.data.t = "arr" /\ Len(result.data.items) = 1 THEN result.data.items[1]
    ELSE NoValue

\* C14: a string value with a pipe is written with "\|" for the pipe, and decoding
\* the text, whether the value was written as a key-value bullet or as a table cell,
\* gives a mapping that still has the key, with a string value that holds the text
\* on both sides of the pipe.
C14_EscapedPipeIsNoBoundary ==
    /\ (pc # "value" /\ scenario.kind = "pipes") =>
            includes(markdown,
                     scenario.left
                     \o (IF scenario.sep = "|" THEN "\\|" ELSE " \\| ")
                     \o scenario.right)
    /\ Decoded("pipes") =>
            /\ HasKey(DecodedMapping, "message")
            /\ Get(DecodedMapping, "message").t = "str"
            /\ includes(Get(DecodedMapping, "message").s, scenario.left)
            /\ includes(Get(DecodedMapping, "message").s, scenario.right)

IsFatal(e) == startsWith(e, "Fatal error: ")

\* C13: markdownToJson returns a record with data and errors for every text and
\* every option combination; when a step of the decoding fails (here: a run of more
\* key-value bullets than the call stack has room for), data is null and errors ends
\* with the one entry prefixed "Fatal error: "; otherwise no entry is fatal, and a
\* diagnostic does not stop the decoding: a table with mismatched rows still gives a
\* sequence that holds every well-formed row.
C13_NeverRaises ==
    pc = "decoded" =>
        /\ DOMAIN result = {"data", "errors"}
        /\ result.data # NoValue
        /\ IF scenario.kind = "deeprun" /\ scenario.n > scenario.frames
           THEN /\ result.data = Null
                /\ Len(result.errors) >= 1
                /\ IsFatal(result.errors[Len(result.errors)])
                /\ Cardinality({i \in 1..Len(result.errors) : IsFatal(result.errors[i])}) = 1
           ELSE /\ \A i \in 1..Len(result.errors) : ~IsFatal(result.errors[i])
                /\ scenario.kind = "deeprun" =>
                        /\ result.data.t = "obj"
                        /\ Len(result.data.entries) = scenario.n
                /\ scenario.kind = "mdtable" =>
                        /\ result.data.t = "arr"
                        /\ \A r \in 1..Len(scenario.counts) :
                                scenario.counts[r] = scenario.cols =>
                                    InSeq(WrittenRow(scenario.cols, r), result.data.items)

C13_Witness ==
    /\ Decoded("deeprun")
    /\ markdown = "- **k1**: v1\n- **k2**: v2\n- **k3**: v3"
    /\ stack = StackOf(2)
    /\ result = [data |-> Null,
                 errors |-> <<"Fatal error: Maximum call stack size exceeded">>]

\* what the written lines are, by their kind
BeginsAndEndsWithPipe(k) == k \in {"pipe", "sep", "sepjunk"}
EverySegmentIsDashes(k) == k = "sep"
FirstSegmentIsDashes(k) == k \in {"sep", "sepjunk"}

\* the text was parsed as a table: data is a sequence of mappings
ParsedAsTable ==
    /\ result.data.t = "arr"
    /\ \A i \in 1..Len(result.data.items) : result.data.items[i].t = "obj"

\* C15 as stated: with parseTables enabled, a text is parsed as a table (data a
\* sequence of mappings) exactly when some line that begins and ends with a pipe is
\* followed at once by a line whose every segment is a run of dashes.
C15_TableDetectionAnyLine ==
    (Decoded("mdlines") /\ decOpts.parseTables) =>
        (ParsedAsTable <=>
            \E i \in 1..(Len(scenario.kinds) - 1) :
                /\ BeginsAndEndsWithPipe(scenario.kinds[i])
                /\ EverySegmentIsDashes(scenario.kinds[i + 1]))

\* C15, amended: with parseTables enabled, a text is parsed as a table exactly when
\* the first line that begins and ends with a pipe has a line after it and that line
\* starts with a pipe, a run of dashes (spaces around it allowed) and a pipe, whatever
\* its other segments are; with parseTables disabled no text is parsed as a table.
C15_TableDetection ==
    Decoded("mdlines") =>
        (ParsedAsTable <=>
            /\ decOpts.parseTables
            /\ \E i \in 1..(Len(scenario.kinds) - 1) :
                /\ BeginsAndEndsWithPipe(scenario.kinds[i])
                /\ \A j \in 1..(i - 1) : ~BeginsAndEndsWithPipe(scenario.kinds[j])
                /\ FirstSegmentIsDashes(scenario.kinds[i + 1]))

C15_Witness ==
    /\ Decoded("mdlines") /\ decOpts.parseTables
    /\ markdown = "text\n| a |\n| --- | x |"
    /\ result = [data |-> Arr(<<>>), errors |-> <<>>]

\* the keys of the written lines, each once, in the order of their first line
RECURSIVE KeysByFirstLine(_, _)
KeysByFirstLine(lines, seen) ==
    IF Len(lines) = 0 THEN seen
    ELSE KeysByFirstLine(Tail(lines),
            IF InSeq(lines[1].k, seen) THEN seen ELSE Append(seen, lines[1].k))

\* the value the last line with key k stands for
LastValueOf(lines, k) ==
    LET text == lines[SetMax({i \in 1..Len(lines) : lines[i].k = k})].text
    IN  IF text = "30" THEN Num(30) ELSE Str(text)

\* the index just after the run, as parseContent returns it for the call at line 0
RunNextIndex ==
    parseContent(TrimmedLines(markdown), 0, decOpts.parseNumberedLists,
                 decOpts.camelCaseKeys).nextIndex

\* data is one mapping with every key of the run, the value of the last line with the
\* key under it
RunIsOneMapping ==
    /\ result.data.t = "obj"
    /\ KeySet(result.data) = {scenario.lines[i].k : i \in 1..Len(scenario.lines)}
    /\ \A i \in 1..Len(scenario.lines) :
            Get(result.data, scenario.lines[i].k)
                = LastValueOf(scenario.lines, scenario.lines[i].k)

IndexKeysFirst(keys) ==
    LET idx == {i \in 1..Len(keys) : AllDigits(keys[i])}
        nth(n) == CHOOSE i \in idx :
                    Cardinality({j \in idx : DigitsValue(keys[j]) < DigitsValue(keys[i])}) = n - 1
    IN  [n \in 1..Cardinality(idx) |-> keys[nth(n)]]
        \o SelectSeq(keys, LAMBDA k : ~AllDigits(k))

IsCollection(v) == v.t \in {"arr", "obj"}

\* the depths of the lines of a nested value at depth d when every list element and
\* every mapping value that is a collection starts on the line below its prefix: the
\* prefix line at depth d, the lines of the collection at depth d + 1
RECURSIVE LineDepths(_, _)
LineDepths(v, d) ==
    LET child == IF v.t = "arr" THEN v.items[1] ELSE v.entries[1].v
    IN  IF IsCollection(child) THEN <<d>> \o LineDepths(child, d + 1) ELSE <<d>>

LeadingSpaces(line) ==
    Cardinality({i \in 1..Len(line) : \A j \in 1..i : Char(line, j) = " "})

\* C17: in the list rendering of a nested value that is not cut at maxDepth, an
\* element of a sequence that is itself a sequence or a mapping is on the lines below
\* its "-" prefix, never on the line of the prefix, and every line of a value at
\* depth d begins with exactly d * indentSize spaces.
C17_CollectionElementsBelowPrefix ==
    (/\ pc # "value" /\ scenario.kind = "nested"
     /\ IsCollection(value) /\ ~encOpts.arraysAsTables
     /\ DeepestAt(value, 0) <= encOpts.maxDepth)
    => LET lines == split(markdown, "\n")
           depths == LineDepths(value, 0)
       IN  /\ Len(lines) = Len(depths)
           /\ \A i \in 1..Len(lines) :
                /\ LeadingSpaces(lines[i]) = depths[i] * encOpts.indentSize
                /\ ~startsWith(trim(sliceFrom(trim(lines[i]), 1)), "- ")

\* C18: a non-empty mapping whose keys hold neither "**" nor ":", whatever its values
\* are (the empty string, null and nested collections among them), encoded and
\* decoded with the default options, comes back as a mapping that has every key of
\* the original.
C18_KeysRoundTrip ==
    (/\ pc = "decoded" /\ scenario.kind \in {"flat", "nested"}
     /\ value.t = "obj" /\ Len(value.entries) > 0
     /\ encOpts = DefaultEncOpts /\ decOpts = DefaultDecOpts)
    => /\ result.data.t = "obj"
       /\ \A i \in 1..Len(value.entries) : HasKey(result.data, value.entries[i].k)

\* parseContent called at the 0-based index i of the lines of the text
ContentAt(i) ==
    parseContent(TrimmedLines(markdown), i, decOpts.parseNumberedLists, decOpts.camelCaseKeys)

\* C19: on the lines of every decoded text, a call of parseContent at a start index
\* below the number of lines returns a next index greater than the start index and at
\* most the number of lines, a call at or past the end returns null and the same
\* index, and the chain of recursive calls from line 0 is no longer than the text has
\* lines.
C19_ParseContentProgress ==
    pc = "decoded" =>
        LET lines == TrimmedLines(markdown)
            n == Len(lines)
            at(i) == parseContent(lines, i, decOpts.parseNumberedLists, decOpts.camelCaseKeys)
        IN  /\ \A i \in 0..(n - 1) :
                    LET r == at(i) IN r.nextIndex > i /\ r.nextIndex <= n
            /\ \A i \in n..(n + 1) : at(i) = [value |-> Null, nextIndex |-> i]
            /\ parseContentFrames(lines, 0, decOpts.parseNumberedLists,
                                  decOpts.camelCaseKeys) <= n

C19_Witness ==
    /\ Decoded("nesteddoc")
    /\ markdown = "- **title**: Doc\n- **user**:\n    - **age**: 30\n- **tags**: json"
    /\ ContentAt(0).nextIndex = 1
    /\ ContentAt(1).nextIndex = 4
    /\ ContentAt(2).nextIndex = 4
    /\ ContentAt(4) = [value |-> Null, nextIndex |-> 4]

====
